---- MODULE Spec2Model ----
(***************************************************************************)
(* Household chores calendar: the weekly quota scheduler of the task API.  *)
(*                                                                         *)
(* Two revisions of the task API are modelled side by side:                *)
(*   - the MySQL revision (src/unnamed/part_001).  Its handlers are async  *)
(*     and suspend at every `await db.query(...)`.  Spec serves requests   *)
(*     one at a time (each handler runs to its response before the next    *)
(*     request arrives); SpecRace lets the handlers of overlapping         *)
(*     requests interleave at their awaits;                                *)
(*   - the JSON-file revision (src/backend/server.js), whose task handlers *)
(*     are synchronous read-modify-write cycles; specification SpecJson.   *)
(*                                                                         *)
(* Dates are day numbers counted from 1970-01-01 (a Thursday); the order   *)
(* of day numbers is the lexicographic order of the YYYY-MM-DD strings.    *)
(* A request body is a function from the keys it carries to their values.  *)
(***************************************************************************)
EXTENDS Integers, Sequences, FiniteSets, TLC

\* ---------------------------------------------------------------- bounds
MaxId == 3      \* identifiers handed out by one run (store size bound)
MaxReqs == 2    \* requests that may be in flight at the same time
MaxDay == 5     \* last day number used as input (Tue 1970-01-06)
MaxPosts == 2   \* comments posted through the comment form in one run
MaxNow == 17    \* last day number the page's clock shows (Sun 1970-01-18)

\* ----------------------------------------------------- program constants
K == 2          \* "at most 2 'Make your own' per ISO week"

VARIABLES
  chores,   \* MySQL revision: the rows of table `chores`
  nextId,   \* MySQL revision: number of identifiers nanoid() has produced
  req,      \* MySQL revision: per request slot, the handler suspended at an await
  last,     \* the most recent HTTP response sent (route, status, body)
  data,     \* JSON revision: the `chores` array of data.json
  jnext,    \* JSON revision: number of items created so far (id / clock)
  fileOk,   \* JSON revision: data.json exists and parses
  comments, \* JSON revision: the `comments` array of data.json
  cnext,    \* JSON revision: number of comments created so far (id / clock)
  upcalls,  \* uploads the most recent comment request asked of Cloudinary
  rev,      \* which revision of the server is deployed
  cloud,    \* the Cloudinary settings of the environment are present
  now,      \* the page: the Date its clock shows (new Date())
  weekStart \* the page: the first day of the week on display

\* the state of the comment log
clientVars == <<now, weekStart>>
commentVars == <<comments, cnext, upcalls, rev, cloud, clientVars>>

vars == <<chores, nextId, req, last, data, jnext, fileOk, commentVars>>

Ids == 1..MaxId
Reqs == 1..MaxReqs
\* Sun 1970-01-04 (day 3) closes one week, Mon 1970-01-05 opens the next
Days == 3..MaxDay
Types == {"NoDinner", "Other"}

\* ------------------------------------------------------- request bodies
EmptyBody == <<>>
Has(b, k) == k \in DOMAIN b
\* a key that is either absent or carries one of the values of S
Opt(k, S) == {EmptyBody} \cup {k :> v : v \in S}
\* JavaScript truthiness of body[k] for the string fields (absent, "" falsy)
Truthy(b, k) == Has(b, k) /\ b[k] # ""
\* object spread / Object.assign: the keys of `over` win
Assign(base, over) == over @@ base
\* `delete obj[k]`
Without(b, k) == [x \in DOMAIN b \ {k} |-> b[x]]

\* ------------------------------------------------------------ week maths
\* Date.getDay(): 0 Sun .. 6 Sat
GetDay(d) == (d + 4) % 7
\* YEARWEEK(date, 1): identifies the Monday-to-Sunday week of the date
\* (represented by the day number of that week's Monday)
YearWeek(d) == d - ((GetDay(d) + 6) % 7)

\* SELECT COUNT(*) FROM chores WHERE type='NoDinner'
\*   AND YEARWEEK(date,1)=YEARWEEK(?,1)
CountWeek(rows, d) ==
  Cardinality({x \in rows : x.type = "NoDinner" /\ YearWeek(x.date) = YearWeek(d)})

\* (variant: the row being updated is counted too)
CountWeekOthers_CountsSelf(rows, id, d) == CountWeek(rows, d)

\* ... WHERE id<>? AND type='NoDinner' AND YEARWEEK(date,1)=YEARWEEK(?,1)
CountWeekOthers(rows, id, d) ==
  Cardinality({x \in rows : x.id # id /\ x.type = "NoDinner"
                             /\ YearWeek(x.date) = YearWeek(d)})

\* ------------------------------------------------------------- responses
LimitMsg == "Limit reached: only 2 'Make your own' days allowed per week."
Resp(op, status, body) == [op |-> op, status |-> status, body |-> body]
Err(msg) == [error |-> msg]
Idle == [pc |-> "idle"]
Ok == [ok |-> TRUE]

\* ======================================================================
\* MySQL revision (src/unnamed/part_001)
\* ======================================================================

\* inputs of POST /api/chores.  Well-formed requests: a NoDinner day, or a
\* task with title and assignee (type given or left to its default), on
\* every date, also through the legacy alias dueDate.  Malformed requests:
\* no date, or a task whose title or assignee is absent or empty.  And
\* NoDinner requests that carry a title and an assignee of their own.
WhenKeys == {"date" :> d : d \in Days} \cup {"dueDate" :> MaxDay}
TaskKeys == ("title" :> "T") @@ ("assignee" :> "Adam")
SqlCreateBodies ==
  { w @@ k : w \in WhenKeys,
             k \in { "type" :> "NoDinner", ("type" :> "Other") @@ TaskKeys, TaskKeys } }
  \cup { "type" :> "NoDinner", ("type" :> "Other") @@ TaskKeys }
  \cup { ("date" :> MaxDay) @@ ("type" :> "Other") @@ k :
           k \in { "title" :> "T", "assignee" :> "Adam",
                   ("title" :> "") @@ ("assignee" :> "Adam"),
                   ("title" :> "T") @@ ("assignee" :> "") } }
  \cup { w @@ ("type" :> "NoDinner") @@ TaskKeys : w \in WhenKeys }

\* inputs of PUT /api/chores/:id: nothing, a done toggle, a move (date or
\* dueDate), a change of type to NoDinner, or a move with that change
SqlUpdateBodies ==
  {EmptyBody} \cup {"done" :> v : v \in BOOLEAN}
  \cup { w @@ t : w \in WhenKeys, t \in Opt("type", {"NoDinner"}) }
  \cup { "type" :> "NoDinner" }

\* const { type = "Other" } = req.body
BodyType(b) == IF Has(b, "type") THEN b.type ELSE "Other"
\* const date = req.body.date || req.body.dueDate  (0 stands for undefined)
BodyDate(b) == IF Has(b, "date") THEN b.date
               ELSE IF Has(b, "dueDate") THEN b.dueDate ELSE 0
\* if (!date) ...
MissingDate(b) == BodyDate(b) = 0
\* if (type !== "NoDinner" && (!title || !assignee)) ...
MissingFields(b) ==
  BodyType(b) # "NoDinner" /\ (~Truthy(b, "title") \/ ~Truthy(b, "assignee"))

\* (variant: off by one, cnt > 2)
CreateLimitReached_OffByOne(cnt) == cnt > K

\* if (r[0].cnt >= 2) in POST
CreateLimitReached(cnt) == cnt >= K
\* if (r[0].cnt >= 2) in PUT
UpdateLimitReached(cnt) == cnt >= K

\* the row INSERTed and returned (done: 0 is FALSE)
NewRow(id, b) ==
  [id |-> id,
   title |-> IF BodyType(b) = "NoDinner" THEN "Make your own" ELSE b.title,
   assignee |-> IF BodyType(b) = "NoDinner" THEN "" ELSE b.assignee,
   date |-> BodyDate(b),
   type |-> BodyType(b),
   done |-> FALSE]

\* PUT: const updates = { ...req.body };
\* if (updates.dueDate && !updates.date) updates.date = updates.dueDate;
\* delete updates.dueDate;
Normalize(b) ==
  Without(IF Has(b, "dueDate") /\ ~Has(b, "date")
          THEN ("date" :> b.dueDate) @@ b ELSE b, "dueDate")

\* (variant: every update is re-checked)
NeedsCheck_Always(u) == TRUE

\* if (updates.type === "NoDinner" || updates.date)
NeedsCheck(u) == (Has(u, "type") /\ u.type = "NoDinner") \/ Has(u, "date")

\* SELECT * FROM chores WHERE id=?
RowsById(rows, id) == {x \in rows : x.id = id}

\* const next = { ...current, ...updates } of the row SELECTed
NextRow(rows, id, u) == Assign(CHOOSE x \in RowsById(rows, id) : TRUE, u)

\* (variant: the UPDATE statement without its WHERE clause)
ApplyUpdate_NoWhere(rows, id, u) ==
  IF DOMAIN u = {} THEN rows ELSE {Assign(x, u) : x \in rows}

\* UPDATE chores SET k=?, ... WHERE id=?  (no statement for an empty SET)
ApplyUpdate(rows, id, u) ==
  IF DOMAIN u = {} THEN rows
  ELSE {IF x.id = id THEN Assign(x, u) ELSE x : x \in rows}

\* ---------------------------------------------------- whole handlers
\* A handler run from request to response is a function of the table, of the
\* identifiers used so far and of the request: it yields the response sent
\* (resp), the table afterwards (rows) and the identifiers used (n).

\* POST /api/chores
SqlCreateOutcome(rows, n, b) ==
  IF MissingDate(b)
  THEN [resp |-> Resp("create", 400, Err("date required")), rows |-> rows, n |-> n]
  ELSE IF MissingFields(b)
  THEN [resp |-> Resp("create", 400,
                      Err("title and assignee required (except NoDinner)")),
        rows |-> rows, n |-> n]
  ELSE IF BodyType(b) = "NoDinner" /\ CreateLimitReached(CountWeek(rows, BodyDate(b)))
  THEN [resp |-> Resp("create", 400, Err(LimitMsg)), rows |-> rows, n |-> n]
  ELSE [resp |-> Resp("create", 201, NewRow(n + 1, b)),
        rows |-> rows \cup {NewRow(n + 1, b)}, n |-> n + 1]

SqlCreate(b) ==
  /\ SqlCreateOutcome(chores, nextId, b).n <= MaxId
  /\ last' = SqlCreateOutcome(chores, nextId, b).resp
  /\ chores' = SqlCreateOutcome(chores, nextId, b).rows
  /\ nextId' = SqlCreateOutcome(chores, nextId, b).n
  /\ UNCHANGED <<req, data, jnext, fileOk, commentVars>>

\* PUT /api/chores/:id
SqlUpdateOutcome(rows, id, b) ==
  LET u == Normalize(b) IN
  IF NeedsCheck(u) /\ RowsById(rows, id) = {}
  THEN [resp |-> Resp("update", 404, Err("Not found")), rows |-> rows]
  ELSE IF /\ NeedsCheck(u)
          /\ NextRow(rows, id, u).type = "NoDinner"
          /\ UpdateLimitReached(CountWeekOthers(rows, id, NextRow(rows, id, u).date))
  THEN [resp |-> Resp("update", 400, Err(LimitMsg)), rows |-> rows]
  ELSE [resp |-> Resp("update", 200, Ok), rows |-> ApplyUpdate(rows, id, u)]

SqlUpdate(id, b) ==
  /\ last' = SqlUpdateOutcome(chores, id, b).resp
  /\ chores' = SqlUpdateOutcome(chores, id, b).rows
  /\ UNCHANGED <<nextId, req, data, jnext, fileOk, commentVars>>

\* (variant: DELETE FROM chores without its WHERE)
SqlDeleteOutcome_NoWhere(rows, id) ==
  [resp |-> Resp("delete", 200, Ok), rows |-> {}]

\* DELETE /api/chores/:id
SqlDeleteOutcome(rows, id) ==
  [resp |-> Resp("delete", 200, Ok), rows |-> {x \in rows : x.id # id}]

SqlDelete(id) ==
  /\ last' = SqlDeleteOutcome(chores, id).resp
  /\ chores' = SqlDeleteOutcome(chores, id).rows
  /\ UNCHANGED <<nextId, req, data, jnext, fileOk, commentVars>>

\* ------------------------------------------ handlers split at their awaits
\* A request whose handler awaits a query and then issues another one runs
\* in several steps, one per query executed by the database.  Handlers with
\* a single query (a create of another type than NoDinner, an update without
\* date and without type NoDinner, a delete) are the whole-handler actions.

\* POST /api/chores of type NoDinner, up to the result of the COUNT query
\* and the test on it: 400 when the limit is reached, otherwise the handler
\* goes on to its INSERT
SqlCreateCount(r, b) ==
  /\ req[r].pc = "idle"
  /\ ~MissingDate(b) /\ ~MissingFields(b)
  /\ BodyType(b) = "NoDinner"
  /\ IF CreateLimitReached(CountWeek(chores, BodyDate(b)))
     THEN /\ last' = Resp("create", 400, Err(LimitMsg))
          /\ UNCHANGED req
     ELSE /\ req' = [req EXCEPT ![r] = [pc |-> "insert", row |-> NewRow(0, b)]]
          /\ UNCHANGED last
  /\ UNCHANGED <<chores, nextId, data, jnext, fileOk, commentVars>>

\* POST /api/chores of type NoDinner, the INSERT and the 201 response
SqlCreateInsert(r) ==
  /\ req[r].pc = "insert"
  /\ nextId < MaxId
  /\ nextId' = nextId + 1
  /\ chores' = chores \cup {[req[r].row EXCEPT !.id = nextId + 1]}
  /\ last' = Resp("create", 201, [req[r].row EXCEPT !.id = nextId + 1])
  /\ req' = [req EXCEPT ![r] = Idle]
  /\ UNCHANGED <<data, jnext, fileOk, commentVars>>

\* PUT /api/chores/:id with a date or with type NoDinner, up to the result
\* of the SELECT of the current row: 404 when there is none; otherwise the
\* handler goes on to the COUNT query (next.type is NoDinner) or straight
\* to its UPDATE
SqlUpdateFetch(r, id, b) ==
  /\ req[r].pc = "idle"
  /\ NeedsCheck(Normalize(b))
  /\ IF RowsById(chores, id) = {}
     THEN /\ last' = Resp("update", 404, Err("Not found"))
          /\ UNCHANGED req
     ELSE /\ req' = [req EXCEPT ![r] =
                IF NextRow(chores, id, Normalize(b)).type = "NoDinner"
                THEN [pc |-> "count", id |-> id, updates |-> Normalize(b),
                      date |-> NextRow(chores, id, Normalize(b)).date]
                ELSE [pc |-> "write", id |-> id, updates |-> Normalize(b)]]
          /\ UNCHANGED last
  /\ UNCHANGED <<chores, nextId, data, jnext, fileOk, commentVars>>

\* PUT /api/chores/:id, the COUNT of the other NoDinner rows of the target
\* week and the test on it
SqlUpdateCount(r) ==
  /\ req[r].pc = "count"
  /\ IF UpdateLimitReached(CountWeekOthers(chores, req[r].id, req[r].date))
     THEN /\ last' = Resp("update", 400, Err(LimitMsg))
          /\ req' = [req EXCEPT ![r] = Idle]
     ELSE /\ req' = [req EXCEPT ![r] =
                [pc |-> "write", id |-> req[r].id, updates |-> req[r].updates]]
          /\ UNCHANGED last
  /\ UNCHANGED <<chores, nextId, data, jnext, fileOk, commentVars>>

\* PUT /api/chores/:id, the UPDATE and the { ok: true } response
SqlUpdateWrite(r) ==
  /\ req[r].pc = "write"
  /\ chores' = ApplyUpdate(chores, req[r].id, req[r].updates)
  /\ last' = Resp("update", 200, Ok)
  /\ req' = [req EXCEPT ![r] = Idle]
  /\ UNCHANGED <<nextId, data, jnext, fileOk, commentVars>>

\* requests of the overlapping clients: NoDinner days, plain tasks, moves
\* and promotions to NoDinner
\* (on the last day of one week and the first day of the next)
RaceDays == 3..4
RaceCreateBodies ==
  { ("date" :> d) @@ ("type" :> "NoDinner") : d \in RaceDays } \cup
  { ("date" :> d) @@ ("type" :> "Other") @@ ("title" :> "T")
      @@ ("assignee" :> "Adam") : d \in RaceDays }
RaceUpdateBodies ==
  { "date" :> d : d \in RaceDays } \cup { "type" :> "NoDinner" }

\* ======================================================================
\* JSON-file revision (src/backend/server.js): synchronous handlers, each
\* one readData / mutate / writeData cycle on data.json
\* ======================================================================

\* inputs of POST /api/chores: the body is stored as it comes
JsonCreateBodies ==
  { d @@ t @@ x @@ dn :
      d \in Opt("date", Days), t \in {"type" :> v : v \in Types},
      x \in {EmptyBody, ("title" :> "T") @@ ("assignee" :> "Adam")},
      dn \in Opt("done", {TRUE}) }

\* inputs of PUT /api/chores/:id
JsonUpdateBodies ==
  { d @@ t : d \in Opt("date", Days), t \in Opt("type", {"NoDinner"}) }

\* bodies that name the fields the server assigns: a task, with or without
\* an id of its own; an update of id, of createdAt, or of done
JsonIdCreateBodies ==
  { ("date" :> MaxDay) @@ ("type" :> "Other") @@ i : i \in Opt("id", Ids) }
JsonIdUpdateBodies ==
  {"id" :> i : i \in Ids} \cup {"createdAt" :> 0, "done" :> TRUE}

\* const newItem = { id: Math.random()..., createdAt: new Date()..., ...req.body }
\* (the n-th item gets identifier n and creation time n)
NewItem(n, b) == Assign([id |-> n, createdAt |-> n], b)

\* data.chores.find((x) => x.id === req.params.id): index of the first match,
\* 0 when there is none
FindIndex(items, id) ==
  IF \E i \in 1..Len(items) : items[i].id = id
  THEN CHOOSE i \in 1..Len(items) :
         items[i].id = id /\ \A j \in 1..(i - 1) : items[j].id # id
  ELSE 0

\* POST /api/chores: the response (resp), the array afterwards (items) and
\* the number of items created (n)
JsonCreateOutcome(items, n, b) ==
  [resp |-> Resp("create", 200, NewItem(n + 1, b)),
   items |-> Append(items, NewItem(n + 1, b)), n |-> n + 1]

JsonCreate(b) ==
  /\ JsonCreateOutcome(data, jnext, b).n <= MaxId
  /\ last' = JsonCreateOutcome(data, jnext, b).resp
  /\ data' = JsonCreateOutcome(data, jnext, b).items
  /\ jnext' = JsonCreateOutcome(data, jnext, b).n
  /\ UNCHANGED <<chores, nextId, req, commentVars>>
  /\ fileOk' = TRUE

\* PUT /api/chores/:id
JsonUpdateOutcome(items, id, b) ==
  IF FindIndex(items, id) = 0
  THEN [resp |-> Resp("update", 404, Err("Not found")), items |-> items]
  ELSE [resp |-> Resp("update", 200, Assign(items[FindIndex(items, id)], b)),
        items |-> [items EXCEPT ![FindIndex(items, id)] = Assign(@, b)]]

JsonUpdate(id, b) ==
  /\ last' = JsonUpdateOutcome(data, id, b).resp
  /\ data' = JsonUpdateOutcome(data, id, b).items
  /\ UNCHANGED <<chores, nextId, req, jnext, commentVars>>
  /\ fileOk' = TRUE

\* (variant: items.splice(items.findIndex(...), 1), which drops the last
\* item when the id is not found)
JsonDeleteOutcome_Splice(items, id) ==
  [resp |-> Resp("delete", 200, [success |-> TRUE]),
   items |-> LET i == IF FindIndex(items, id) = 0 THEN Len(items)
                      ELSE FindIndex(items, id)
             IN SubSeq(items, 1, i - 1) \o SubSeq(items, i + 1, Len(items))]

\* DELETE /api/chores/:id
JsonDeleteOutcome(items, id) ==
  [resp |-> Resp("delete", 200, [success |-> TRUE]),
   items |-> SelectSeq(items, LAMBDA x : x.id # id)]

JsonDelete(id) ==
  /\ last' = JsonDeleteOutcome(data, id).resp
  /\ data' = JsonDeleteOutcome(data, id).items
  /\ UNCHANGED <<chores, nextId, req, jnext, commentVars>>
  /\ fileOk' = TRUE

\* ======================================================================
\* GET /api/chores (List), MySQL revision and JSON-file revision
\* ======================================================================

\* dates of the listed tasks and of the bounds of the query
ListDays == 4..MaxDay
\* req.query: start and end, each present or not
Queries == { s @@ e : s \in Opt("start", ListDays), e \in Opt("end", ListDays) }
\* if (start && end)
HasRange(q) == Has(q, "start") /\ Has(q, "end")

\* tasks to list: NoDinner days and plain tasks
ListCreateBodies ==
  { ("date" :> d) @@ k : d \in ListDays,
                         k \in { "type" :> "NoDinner", ("type" :> "Other") @@ TaskKeys } }

\* readData(): what a handler sees of data.json; a file that is missing or
\* does not parse reads as the seed, which has no chores
ReadChores(ok, items) == IF ok THEN items ELSE <<>>

\* (variant: the end of the range left out)
InRange_EndExcluded(t, q) ==
  Has(t, "date") /\ t.date >= q.start /\ t.date < q.end

\* (t) => t.date >= start && t.date <= end  (false for an item without date)
InRange(t, q) ==
  Has(t, "date") /\ t.date >= q.start /\ t.date <= q.end

\* GET /api/chores of the JSON-file revision: the response (resp), the array
\* afterwards (items) and whether data.json is readable afterwards (ok:
\* readData writes the seed when it could not read the file)
JsonListOutcome(ok, items, q) ==
  [resp |-> Resp("list", 200,
                 IF HasRange(q)
                 THEN SelectSeq(ReadChores(ok, items), LAMBDA t : InRange(t, q))
                 ELSE ReadChores(ok, items)),
   items |-> ReadChores(ok, items),
   ok |-> TRUE]

JsonList(q) ==
  /\ last' = JsonListOutcome(fileOk, data, q).resp
  /\ data' = JsonListOutcome(fileOk, data, q).items
  /\ fileOk' = JsonListOutcome(fileOk, data, q).ok
  /\ UNCHANGED <<chores, nextId, req, jnext, commentVars>>

\* WHERE date BETWEEN ? AND ?
Between(x, q) == q.start <= x.date /\ x.date <= q.end

\* ORDER BY date, createdAt (rows are created in the order of their
\* identifiers' numbers)
RowBefore(x, y) == x.date < y.date \/ (x.date = y.date /\ x.id <= y.id)

RECURSIVE OrderRows(_)
OrderRows(S) ==
  IF S = {} THEN <<>>
  ELSE LET first == CHOOSE x \in S : \A y \in S : RowBefore(x, y)
       IN <<first>> \o OrderRows(S \ {first})

\* GET /api/chores of the MySQL revision
SqlListOutcome(rows, q) ==
  [resp |-> Resp("list", 200,
                 OrderRows({x \in rows : HasRange(q) => Between(x, q)})),
   rows |-> rows]

SqlList(q) ==
  /\ last' = SqlListOutcome(chores, q).resp
  /\ chores' = SqlListOutcome(chores, q).rows
  /\ UNCHANGED <<nextId, req, data, jnext, fileOk, commentVars>>

\* ======================================================================
\* POST /api/comments, four revisions:
\*   "json1"    src/backend/server.js 89-118   (body spread into the comment)
\*   "json2"    src/backend/server.js 215-244
\*   "json4"    src/backend/server.js 431-483  (upload_stream)
\*   "part_000" src/unnamed/part_000 98-132
\* Requests are served one at a time.
\* ======================================================================
CommentRevs == {"json1", "json2", "json4", "part_000"}

\* photo references: null, the secure_url Cloudinary returned for the upload
\* made while comment n was being created, a value chosen by the caller
Null == [ref |-> "null"]
Uploaded(n) == [ref |-> "upload", of |-> n]
Caller == [ref |-> "caller"]

\* the booleans true and false where a body may also carry the form strings
\* "true" and "false"
JsTrue == "<true>"
JsFalse == "<false>"

\* new Date().toISOString().slice(0, 10)
Today == MaxDay

\* a request: the fields of req.body and whether multer found a file
\* (req.file).  The text is absent, empty or not; the body may name a photo
\* reference of its own
CommentBodies ==
  { t @@ ph : t \in Opt("text", {"", "hi"}),
              ph \in { EmptyBody, "photoUrl" :> Caller,
                       ("photoUrl" :> Caller) @@ ("photo" :> Caller) } }
CommentRequests == { [body |-> b, file |-> f] : b \in CommentBodies, f \in BOOLEAN }

\* requests that name their author: req.body.name, and the anonymity flag
\* under either of the two keys the revisions read, as a form string or as a
\* JSON boolean
AnonFlags ==
  { EmptyBody, "isAnonymous" :> "true", "isAnonymous" :> JsTrue,
    "isAnonymous" :> "false", "anonymous" :> "true", "anonymous" :> JsTrue }
AnonBodies ==
  { nm @@ fl @@ ("text" :> "hi") : nm \in Opt("name", {"", "Sam"}), fl \in AnonFlags }
AnonRequests == { [body |-> b, file |-> FALSE] : b \in AnonBodies }

\* what the upload does when it is called: it resolves with a secure_url,
\* it fails (rejected promise, error passed to the callback), or the call
\* itself throws
UploadResults == {"ok", "fail", "throw"}

\* (variant: the upload is attempted for every request)
WantsUpload_Always(r, cl, rq) == TRUE

\* if (req.file)  /  if (req.file && VITE_CLOUD_NAME && VITE_CLOUD_PRESET)
WantsUpload(r, cl, rq) == rq.file /\ (r = "json1" => cl)

\* anonymous: ... of the stored comment
Anonymous(r, b) ==
  IF r = "json2"
  THEN Has(b, "isAnonymous") /\ b.isAnonymous \in {"true", JsTrue}
  ELSE IF r = "json4"
  THEN Has(b, "anonymous") /\ b.anonymous \notin {"", JsFalse}
  ELSE \/ Has(b, "isAnonymous") /\ b.isAnonymous = "true"
       \/ Has(b, "anonymous") /\ b.anonymous = "true"

\* (variant: the body spread after photoUrl)
NewComment_BodyLast(r, n, b, ph) ==
  IF r = "json1"
  THEN Assign(Assign([id |-> n, createdAt |-> n], "photoUrl" :> ph), b)
  ELSE [id |-> n, createdAt |-> n,
        name |-> IF Has(b, "name") THEN b.name ELSE "",
        anonymous |-> Anonymous(r, b),
        text |-> IF Has(b, "text") THEN b.text ELSE "",
        date |-> IF Has(b, "date") THEN b.date ELSE Today,
        photoUrl |-> ph]

\* the comment built for the store: { id, createdAt, ...req.body, photoUrl }
\* in "json1", the fields name, anonymous, text, date, photoUrl picked from
\* the body (x ?? default) in the other revisions
NewComment(r, n, b, ph) ==
  IF r = "json1"
  THEN Assign(Assign([id |-> n, createdAt |-> n], b), "photoUrl" :> ph)
  ELSE [id |-> n, createdAt |-> n,
        name |-> IF Has(b, "name") THEN b.name ELSE "",
        anonymous |-> Anonymous(r, b),
        text |-> IF Has(b, "text") THEN b.text ELSE "",
        date |-> IF Has(b, "date") THEN b.date ELSE Today,
        photoUrl |-> ph]

\* the handler from request to response: the response (resp), the comments
\* array afterwards (comments), the number of comments created (n) and the
\* number of uploads asked of Cloudinary (calls)
CommentOutcome(r, cl, cs, n, rq, up) ==
  IF WantsUpload(r, cl, rq) /\ up # "ok" /\ (r = "part_000" \/ (r = "json4" /\ up = "throw"))
  THEN [resp |-> Resp("comment", 500,
                      Err(IF r = "json4" THEN "Photo upload failed" ELSE "Upload failed")),
        comments |-> cs, n |-> n, calls |-> 1]
  ELSE [resp |-> Resp("comment", 200,
                      NewComment(r, n + 1, rq.body,
                                 IF WantsUpload(r, cl, rq) /\ up = "ok"
                                 THEN Uploaded(n + 1) ELSE Null)),
        comments |-> Append(cs, NewComment(r, n + 1, rq.body,
                                 IF WantsUpload(r, cl, rq) /\ up = "ok"
                                 THEN Uploaded(n + 1) ELSE Null)),
        n |-> n + 1,
        calls |-> IF WantsUpload(r, cl, rq) THEN 1 ELSE 0]

\* fs.unlinkSync(req.file.path) after the upload: it removes the temporary
\* file or throws
UnlinkResults == {"ok", "throw"}

\* the handler with the cleanup of the temporary file.  In "json1" and
\* "json2" unlinkSync stands inside the try of the upload, after photoUrl
\* has been set, and its exception is only logged; "json4" keeps the file in
\* memory; in "part_000" the try is that of the whole request
CommentCleanupOutcome(r, cl, cs, n, rq, up, ul) ==
  IF r = "part_000" /\ WantsUpload(r, cl, rq) /\ up = "ok" /\ ul = "throw"
  THEN [resp |-> Resp("comment", 500, Err("Upload failed")),
        comments |-> cs, n |-> n, calls |-> 1]
  ELSE CommentOutcome(r, cl, cs, n, rq, up)

\* without the Cloudinary settings no upload succeeds
CommentCreate(rq, up) ==
  /\ up = "ok" => cloud
  /\ \E ul \in UnlinkResults :
       LET o == CommentCleanupOutcome(rev, cloud, comments, cnext, rq, up, ul) IN
       /\ o.n <= MaxId
       /\ last' = o.resp
       /\ comments' = o.comments
       /\ cnext' = o.n
       /\ upcalls' = o.calls
  /\ fileOk' = TRUE
  /\ UNCHANGED <<chores, nextId, req, data, jnext, rev, cloud, clientVars>>

\* ======================================================================
\* The comment form of the front-ends (submitComment):
\*   "app.jsx"  src/frontend/src/app.jsx 185-225: uploads the photo itself,
\*              then posts JSON { date, name, isAnonymous, text, photo }
\*   "part_002" src/unnamed/part_002 161-185: posts multipart form data
\*              date, name, anonymous, text, photo (the file)
\* Both run against the deployed server revision; the Cloudinary settings
\* of the page are those of the deployment.
\* ======================================================================
Clients == {"app.jsx", "part_002"}

\* 3 * 1024 * 1024
MaxBytes == 3 * 1024 * 1024

\* commentForm.photoFile: null, or the file picked (its size in bytes,
\* whether it is an image; the input's accept="image/*" only presets the
\* picker's filter)
NoFile == [none |-> TRUE]
Files == [size : {MaxBytes, MaxBytes + 1}, image : BOOLEAN]
Forms ==
  [text : {"", " ", "hi"}, name : {"Sam"}, isAnonymous : BOOLEAN,
   photoFile : Files \cup {NoFile}]

\* String.prototype.trim on the texts of Forms
Trim(t) == IF t = " " THEN "" ELSE t

\* if (!commentForm.text?.trim() && !commentForm.photoFile)
NothingToPost(form) == Trim(form.text) = "" /\ form.photoFile = NoFile

\* commentForm.photoFile.size > 3 * 1024 * 1024
TooLarge(form) == form.photoFile # NoFile /\ form.photoFile.size > MaxBytes

Alert(msg) == Resp("alert", 0, Err(msg))

\* upload.single("photo") with multer({ dest }) or multer({ storage }):
\* req.file is set for whatever file the request carries
MulterFile(f) == f # NoFile

\* the payload / form data the page sends
AppPayload(form, ph) ==
  [date |-> Today,
   name |-> IF form.isAnonymous THEN "" ELSE Trim(form.name),
   isAnonymous |-> IF form.isAnonymous THEN JsTrue ELSE JsFalse,
   text |-> Trim(form.text),
   photo |-> ph]
FormData(form) ==
  [date |-> Today,
   name |-> IF form.isAnonymous THEN "" ELSE form.name,
   anonymous |-> IF form.isAnonymous THEN "true" ELSE "false",
   text |-> form.text]

\* submitComment from the click to the alert or the server's answer: resp,
\* the comments array of the server afterwards, the number of comments
\* created, the number of uploads asked of Cloudinary (by the page or by
\* the server)
SubmitOutcome(c, r, cl, cs, n, form, up, ul) ==
  IF NothingToPost(form)
  THEN [resp |-> Alert("Write a comment or add a photo."),
        comments |-> cs, n |-> n, calls |-> 0]
  ELSE IF TooLarge(form)
  THEN [resp |-> Alert("Image too large. Max 3 MB."),
        comments |-> cs, n |-> n, calls |-> 0]
  ELSE IF c = "part_002"
  THEN CommentCleanupOutcome(r, cl, cs, n,
                             [body |-> FormData(form), file |-> MulterFile(form.photoFile)],
                             up, ul)
  ELSE IF form.photoFile # NoFile /\ ~cl
  THEN [resp |-> Alert("Image upload not configured. Set VITE_CLOUD_NAME and VITE_CLOUD_PRESET."),
        comments |-> cs, n |-> n, calls |-> 0]
  ELSE IF form.photoFile # NoFile /\ up # "ok"
  THEN [resp |-> Alert("Upload failed"), comments |-> cs, n |-> n, calls |-> 1]
  ELSE LET ph == IF form.photoFile # NoFile THEN Uploaded(n + 1) ELSE Null
           o == CommentOutcome(r, cl, cs, n,
                               [body |-> AppPayload(form, ph), file |-> FALSE], up)
       IN [o EXCEPT !.calls = IF form.photoFile # NoFile THEN 1 ELSE 0]

SubmitComment(c, form, up) ==
  /\ up = "ok" => cloud
  /\ \E ul \in UnlinkResults :
       LET o == SubmitOutcome(c, rev, cloud, comments, cnext, form, up, ul) IN
       /\ o.n <= MaxId
       /\ last' = o.resp
       /\ comments' = o.comments
       /\ cnext' = o.n
       /\ upcalls' = o.calls
       /\ fileOk' = (fileOk \/ o.resp.op = "comment")
  /\ UNCHANGED <<chores, nextId, req, data, jnext, rev, cloud, clientVars>>

\* a request sent to the server without the page: any file, any text
AttachedCreate(f, t, up) ==
  CommentCreate([body |-> "text" :> t, file |-> MulterFile(f)], up)

\* ----------------------------------------------------------------------
\* POST /api/comments with a file, step by step.  Every revision reads
\* data.json first (const db = readData()), then suspends at the upload;
\* when the upload has resolved (or, in "json4", when upload_stream calls
\* back) it pushes the comment onto the db object it read and writes that
\* object back.  Requests without an upload have no await and run whole
\* (CommentCreate).
\* ----------------------------------------------------------------------
\* requests of overlapping Creates
RaceCommentRequests ==
  { [body |-> "text" :> t, file |-> f] : t \in {"hi", "yo"}, f \in BOOLEAN }

\* (variant: the comment is pushed and written before the upload is awaited)
CommentBeginOutcome_WriteFirst(r, cs, ch, n, rq) ==
  [req |-> [pc |-> "upload", rq |-> rq,
            db |-> [chores |-> ch,
                    comments |-> Append(cs, NewComment(r, n + 1, rq.body, Null))]],
   comments |-> Append(cs, NewComment(r, n + 1, rq.body, Null))]

\* from the request to the await: the handler's position with the db object
\* it holds (req) and the comments array of data.json at that point
CommentBeginOutcome(r, cs, ch, n, rq) ==
  [req |-> [pc |-> "upload", rq |-> rq, db |-> [chores |-> ch, comments |-> cs]],
   comments |-> cs]

CommentBegin(r, rq) ==
  LET o == CommentBeginOutcome(rev, comments, data, cnext, rq) IN
  /\ req[r] = Idle
  /\ WantsUpload(rev, cloud, rq)
  /\ cnext + Cardinality({s \in Reqs : req[s] # Idle}) < MaxId
  /\ req' = [req EXCEPT ![r] = o.req]
  /\ comments' = o.comments
  /\ upcalls' = 1
  /\ fileOk' = TRUE
  /\ UNCHANGED <<chores, nextId, last, data, jnext, cnext, rev, cloud, clientVars>>

\* (variant: a failed upload is only logged, the handler neither stores nor
\* answers)
CommentResolve_NoAnswer(r, up) ==
  /\ req[r] # Idle
  /\ up = "ok" /\ cloud
  /\ \E ul \in UnlinkResults :
     LET o == CommentCleanupOutcome(rev, cloud, req[r].db.comments, cnext,
                                    req[r].rq, up, ul) IN
       /\ last' = o.resp
       /\ comments' = IF o.resp.status = 200 THEN o.comments ELSE comments
       /\ data' = IF o.resp.status = 200 THEN req[r].db.chores ELSE data
       /\ cnext' = o.n
       /\ upcalls' = o.calls
  /\ req' = [req EXCEPT ![r] = Idle]
  /\ UNCHANGED <<chores, nextId, jnext, fileOk, rev, cloud, clientVars>>

\* from the upload's resolution to the response: the comment is pushed onto
\* the db object read before the await, and writeData(db) replaces the file
CommentResolve(r, up) ==
  /\ req[r] # Idle
  /\ up = "ok" => cloud
  /\ \E ul \in UnlinkResults :
     LET o == CommentCleanupOutcome(rev, cloud, req[r].db.comments, cnext,
                                    req[r].rq, up, ul) IN
       /\ last' = o.resp
       /\ comments' = IF o.resp.status = 200 THEN o.comments ELSE comments
       /\ data' = IF o.resp.status = 200 THEN req[r].db.chores ELSE data
       /\ cnext' = o.n
       /\ upcalls' = o.calls
  /\ req' = [req EXCEPT ![r] = Idle]
  /\ UNCHANGED <<chores, nextId, jnext, fileOk, rev, cloud, clientVars>>

\* ======================================================================
\* The week on display (src/frontend/src/app.jsx 50-66, 90, 111-115,
\* 317-328).  A Date is a local calendar day (day number) with the time of
\* day in milliseconds; getDay, setDate and setHours work in local time.
\* ======================================================================
MsPerDay == 86400000
\* Mon 1969-12-29
FirstMonday == -3
ClockDays == FirstMonday..MaxNow
Dates == [day : ClockDays, ms : {0, 1, MsPerDay - 1}]

\* `${d.getFullYear()}-${pad(d.getMonth() + 1)}-${pad(d.getDate())}`
toYMD(d) == d.day

\* (variant: Sunday not treated apart, diff = 1 - day)
startOfWeekMon_NoSundayCase(date) ==
  LET day == GetDay(date.day)
      diff == 1 - day
  IN [day |-> date.day + diff, ms |-> 0]

\* (variant: one day too far back)
startOfWeekMon_DayBefore(date) ==
  LET day == GetDay(date.day)
      diff == (IF day = 0 THEN -6 ELSE 1) - day - 1
  IN [day |-> date.day + diff, ms |-> 0]

\* d.setDate(d.getDate() + diff); d.setHours(0, 0, 0, 0)
startOfWeekMon(date) ==
  LET day == GetDay(date.day)
      diff == (IF day = 0 THEN -6 ELSE 1) - day
  IN [day |-> date.day + diff, ms |-> 0]

\* (variant: one day short)
addDays_DayShort(date, n) == [date EXCEPT !.day = @ + n - 1]

\* d.setDate(d.getDate() + n)
addDays(date, n) == [date EXCEPT !.day = @ + n]

\* Array.from({ length: 7 }, (_, i) => addDays(weekStart, i))
weekDays(ws) == [i \in 0..6 |-> addDays(ws, i)]
\* { start: toYMD(weekDays[0]), end: toYMD(weekDays[6]) }
range(ws) == [start |-> toYMD(weekDays(ws)[0]), end |-> toYMD(weekDays(ws)[6])]

serverVars ==
  <<chores, nextId, req, last, data, jnext, fileOk, comments, cnext, upcalls, rev, cloud>>

\* time passes on the page's clock
Tick(d) ==
  /\ d.day > now.day \/ (d.day = now.day /\ d.ms > now.ms)
  /\ now' = d
  /\ UNCHANGED <<serverVars, weekStart>>

\* the buttons of the week bar
PrevWeek ==
  /\ weekStart.day - 7 >= FirstMonday
  /\ weekStart' = addDays(weekStart, -7)
  /\ UNCHANGED <<serverVars, now>>
NextWeek ==
  /\ weekStart.day + 7 <= MaxNow
  /\ weekStart' = addDays(weekStart, 7)
  /\ UNCHANGED <<serverVars, now>>
ThisWeek ==
  /\ weekStart' = startOfWeekMon(now)
  /\ UNCHANGED <<serverVars, now>>

\* ----------------------------------------------------------------------
\* makeOwnDay(form.date) of the page, against the MySQL revision:
\*   "app.jsx"  src/frontend/src/app.jsx 165-182: counts the loaded NoDinner
\*              tasks whose date lies in the range on display, limit 4
\*   "part_001" src/unnamed/part_001 642-651: counts all loaded NoDinner
\*              tasks, limit 2
\* `tasks` is what the last refresh loaded: the rows of the range on display
\* (refreshTasks = api.chores.list(range), run after every change).
\* ----------------------------------------------------------------------
OwnDayClients == {"app.jsx", "part_001"}

\* setTasks(await api.chores.list(range))
LoadedTasks(rows, ws) == {t \in rows : Between(t, range(ws))}

\* tasks.filter(...).length
OwnDayCount(c, rows, ws) ==
  IF c = "app.jsx"
  THEN Cardinality({t \in LoadedTasks(rows, ws) :
                      /\ t.type = "NoDinner"
                      /\ t.date >= range(ws).start /\ t.date <= range(ws).end})
  ELSE Cardinality({t \in LoadedTasks(rows, ws) : t.type = "NoDinner"})

\* if (countThisWeek >= 4)  /  if (count >= 2)
OwnDayLimit(c) == IF c = "app.jsx" THEN 4 ELSE 2

\* from the click to the alert or the server's answer: resp, the table
\* afterwards (rows) and the identifiers used (n)
MakeOwnDayOutcome(c, rows, n, ws, date) ==
  IF OwnDayCount(c, rows, ws) >= OwnDayLimit(c)
  THEN [resp |-> Alert(IF c = "app.jsx"
                       THEN "Limit: only 4 'Make your own' days allowed per week."
                       ELSE LimitMsg),
        rows |-> rows, n |-> n]
  ELSE SqlCreateOutcome(rows, n,
         IF c = "app.jsx"
         THEN ("date" :> date) @@ ("type" :> "NoDinner") @@ ("title" :> "Make your own")
         ELSE ("date" :> date) @@ ("type" :> "NoDinner"))

MakeOwnDay(c, date) ==
  LET o == MakeOwnDayOutcome(c, chores, nextId, weekStart, date) IN
  /\ o.n <= MaxId
  /\ last' = o.resp
  /\ chores' = o.rows
  /\ nextId' = o.n
  /\ UNCHANGED <<req, data, jnext, fileOk, commentVars>>

Init ==
  /\ chores = {}
  /\ nextId = 0
  /\ req = [r \in Reqs |-> Idle]
  /\ last = Resp("none", 0, EmptyBody)
  /\ data = <<>>
  /\ jnext = 0
  /\ fileOk = TRUE
  /\ comments = <<>>
  /\ cnext = 0
  /\ upcalls = 0
  /\ rev = "mysql"
  /\ cloud = TRUE
  /\ now = [day |-> Today, ms |-> 0]
  /\ weekStart = startOfWeekMon(now)

\* requests served one at a time
Next ==
  \/ \E b \in SqlCreateBodies : SqlCreate(b)
  \/ \E id \in Ids, b \in SqlUpdateBodies : SqlUpdate(id, b)
  \/ \E id \in Ids : SqlDelete(id)

Spec == Init /\ [][Next]_vars

\* overlapping requests
RaceNext ==
  \/ \E b \in RaceCreateBodies : BodyType(b) # "NoDinner" /\ SqlCreate(b)
  \/ \E r \in Reqs, b \in RaceCreateBodies : SqlCreateCount(r, b)
  \/ \E r \in Reqs : SqlCreateInsert(r)
  \/ \E r \in Reqs, id \in Ids, b \in RaceUpdateBodies : SqlUpdateFetch(r, id, b)
  \/ \E r \in Reqs : SqlUpdateCount(r)
  \/ \E r \in Reqs : SqlUpdateWrite(r)
  \/ \E id \in Ids : SqlDelete(id)

SpecRace == Init /\ [][RaceNext]_vars

\* the JSON-file revision
JsonNext ==
  \/ \E b \in JsonCreateBodies : JsonCreate(b)
  \/ \E id \in Ids, b \in JsonUpdateBodies : JsonUpdate(id, b)
  \/ \E id \in Ids : JsonDelete(id)

SpecJson == Init /\ [][JsonNext]_vars

\* List: one deployment runs one revision, on a table that starts empty or
\* on a data.json that starts empty or missing
ListInit ==
  /\ chores = {}
  /\ nextId = 0
  /\ req = [r \in Reqs |-> Idle]
  /\ last = Resp("none", 0, EmptyBody)
  /\ data = <<>>
  /\ jnext = 0
  /\ fileOk \in BOOLEAN
  /\ comments = <<>>
  /\ cnext = 0
  /\ upcalls = 0
  /\ rev \in {"mysql", "json"}
  /\ cloud = TRUE
  /\ now = [day |-> Today, ms |-> 0]
  /\ weekStart = startOfWeekMon(now)

ListNext ==
  \/ \E b \in ListCreateBodies : rev = "mysql" /\ SqlCreate(b)
  \/ \E q \in Queries : rev = "mysql" /\ SqlList(q)
  \/ \E b \in ListCreateBodies \cup {"type" :> "Other"} : rev = "json" /\ JsonCreate(b)
  \/ \E q \in Queries : rev = "json" /\ JsonList(q)

SpecList == ListInit /\ [][ListNext]_vars

\* the comment log: one deployment runs one revision, with or without the
\* Cloudinary settings
CommentInit ==
  /\ chores = {}
  /\ nextId = 0
  /\ req = [r \in Reqs |-> Idle]
  /\ last = Resp("none", 0, EmptyBody)
  /\ data = <<>>
  /\ jnext = 0
  /\ fileOk = TRUE
  /\ comments = <<>>
  /\ cnext = 0
  /\ upcalls = 0
  /\ rev \in CommentRevs
  /\ cloud \in BOOLEAN
  /\ now = [day |-> Today, ms |-> 0]
  /\ weekStart = startOfWeekMon(now)

CommentNext == \E rq \in CommentRequests, up \in UploadResults : CommentCreate(rq, up)

SpecComments == CommentInit /\ [][CommentNext]_vars

\* the comment log, requests that carry a name and an anonymity flag
AnonNext == \E rq \in AnonRequests, up \in UploadResults : CommentCreate(rq, up)

SpecAnon == CommentInit /\ [][AnonNext]_vars

\* the comment form and direct requests with a file
ClientNext ==
  \/ \E c \in Clients, form \in Forms, up \in UploadResults :
       cnext < MaxPosts /\ SubmitComment(c, form, up)
  \/ \E f \in Files, t \in {"", "hi"}, up \in UploadResults :
       cnext < MaxPosts /\ AttachedCreate(f, t, up)

SpecClient == CommentInit /\ [][ClientNext]_vars

\* overlapping comment Creates
CommentRaceNext ==
  \/ \E rq \in RaceCommentRequests, up \in UploadResults :
       /\ ~WantsUpload(rev, cloud, rq)
       /\ cnext + Cardinality({s \in Reqs : req[s] # Idle}) < MaxId
       /\ CommentCreate(rq, up)
  \/ \E r \in Reqs, rq \in RaceCommentRequests : CommentBegin(r, rq)
  \/ \E r \in Reqs, up \in UploadResults : CommentResolve(r, up)

SpecCommentRace == CommentInit /\ [][CommentRaceNext]_vars

\* the week on display: the page is opened at any moment of the clock
WeekInit ==
  /\ chores = {}
  /\ nextId = 0
  /\ req = [r \in Reqs |-> Idle]
  /\ last = Resp("none", 0, EmptyBody)
  /\ data = <<>>
  /\ jnext = 0
  /\ fileOk = TRUE
  /\ comments = <<>>
  /\ cnext = 0
  /\ upcalls = 0
  /\ rev = "mysql"
  /\ cloud = TRUE
  /\ now \in Dates
  /\ weekStart = startOfWeekMon(now)

WeekNext ==
  \/ \E d \in Dates : Tick(d)
  \/ PrevWeek
  \/ NextWeek
  \/ ThisWeek

SpecWeek == WeekInit /\ [][WeekNext]_vars

\* a comment Create waiting for its upload while task requests and other
\* comment requests are served (the task handlers have no await and run
\* whole)
StoreRaceTaskBodies == { ("date" :> MaxDay) @@ ("type" :> "Other") @@ TaskKeys }
StoreRaceNext ==
  \/ \E b \in StoreRaceTaskBodies : jnext < MaxPosts /\ JsonCreate(b)
  \/ \E id \in Ids : FindIndex(data, id) # 0 /\ JsonUpdate(id, "done" :> TRUE)
  \/ \E id \in Ids : FindIndex(data, id) # 0 /\ JsonDelete(id)
  \/ \E rq \in RaceCommentRequests, up \in UploadResults :
       /\ rq.body.text = "hi"
       /\ ~WantsUpload(rev, cloud, rq)
       /\ cnext + Cardinality({s \in Reqs : req[s] # Idle}) < MaxPosts
       /\ CommentCreate(rq, up)
  \/ \E r \in Reqs, rq \in RaceCommentRequests :
       /\ rq.body.text = "hi"
       /\ cnext + Cardinality({s \in Reqs : req[s] # Idle}) < MaxPosts
       /\ CommentBegin(r, rq)
  \/ \E r \in Reqs, up \in UploadResults : CommentResolve(r, up)

SpecStoreRace == CommentInit /\ [][StoreRaceNext]_vars

\* the page's "Make your own" button, any date of the form, any week on
\* display
OwnDayNext ==
  \/ \E c \in OwnDayClients, d \in Days : MakeOwnDay(c, d)
  \/ \E id \in Ids : SqlDelete(id)
  \/ PrevWeek
  \/ NextWeek
  \/ ThisWeek

SpecOwnDay == Init /\ [][OwnDayNext]_vars

\* Create and Delete, either revision deployed; the JSON-file revision also
\* receives bodies that carry an id of their own
DeleteNext ==
  \/ \E b \in ListCreateBodies : rev = "mysql" /\ SqlCreate(b)
  \/ \E id \in Ids : rev = "mysql" /\ SqlDelete(id)
  \/ \E b \in ListCreateBodies \cup JsonIdCreateBodies : rev = "json" /\ JsonCreate(b)
  \/ \E id \in Ids : rev = "json" /\ JsonDelete(id)

SpecDelete == ListInit /\ [][DeleteNext]_vars

\* overlapping comment Creates whose uploads all resolve: Cloudinary settles
\* every upload it was asked for, and the event loop then runs the
\* handler's continuation (or callback)
SpecCommentLive ==
  /\ CommentInit
  /\ [][CommentRaceNext]_vars
  /\ \A r \in Reqs : WF_vars(\E up \in UploadResults : CommentResolve(r, up))

\* the JSON-file revision, requests whose body names id or createdAt
JsonIdNext ==
  \/ \E b \in JsonIdCreateBodies : JsonCreate(b)
  \/ \E id \in Ids, b \in JsonIdUpdateBodies : JsonUpdate(id, b)
  \/ \E id \in Ids : JsonDelete(id)

SpecJsonIds == Init /\ [][JsonIdNext]_vars
\* ======================================================================
\* Properties
\* ======================================================================

\* index of the Monday-to-Sunday week of day d (1969-12-29, day -3, is a
\* Monday)
WeekOf(d) == (d + 3) \div 7
Weeks == {WeekOf(d) : d \in Days}
\* an entry of the quota-limited category
Limited(x) == Has(x, "type") /\ x.type = "NoDinner"
\* number of quota-limited entries of week w among a set of entries
NoDinnerIn(rows, w) ==
  Cardinality({x \in rows : Limited(x) /\ Has(x, "date") /\ WeekOf(x.date) = w})
\* the entries of data.json other than the one at index i
OtherItems(items, i) == {items[j] : j \in (1..Len(items)) \ {i}}
LimitResp(op) == Resp(op, 400, Err(LimitMsg))

\* C1: after any Create, Update and Delete operations, every Monday-to-Sunday
\* week holds at most K entries of type NoDinner.
C1_WeeklyCap == \A w \in Weeks : NoDinnerIn(chores, w) <= K

\* C2: of overlapping NoDinner Creates for one week with a single slot left,
\* at most one succeeds: a Create that has just answered 201 leaves its week
\* with at most K NoDinner entries.
C2_CreateKeepsCap ==
  (last.op = "create" /\ last.status = 201 /\ last.body.type = "NoDinner")
    => NoDinnerIn(chores, WeekOf(last.body.date)) <= K

\* C3: a NoDinner Create for a date whose week already holds K NoDinner
\* entries answers with the limit error, inserts nothing and leaves the store
\* as it was.
C3_FullWeekRejectsCreate ==
  \A b \in SqlCreateBodies :
    (/\ Limited(b) /\ ~MissingDate(b)
     /\ NoDinnerIn(chores, WeekOf(BodyDate(b))) >= K)
    => SqlCreateOutcome(chores, nextId, b) =
         [resp |-> LimitResp("create"), rows |-> chores, n |-> nextId]

C3_Witness ==
  /\ last = LimitResp("create")
  /\ \E w \in Weeks : NoDinnerIn(chores, w) = K

\* C4: an Update that makes an entry a NoDinner entry of a week, or moves a
\* NoDinner entry into another week, while that week already holds K other
\* NoDinner entries, answers with the limit error and writes nothing.
C4_FullWeekRejectsUpdate ==
  [][\A id \in Ids, b \in JsonUpdateBodies :
       (/\ JsonUpdate(id, b)
        /\ FindIndex(data, id) # 0
        /\ LET i == FindIndex(data, id)
               cur == data[i]
               nxt == Assign(cur, b)
           IN /\ Limited(nxt) /\ Has(nxt, "date")
              /\ \/ ~Limited(cur)
                 \/ ~Has(cur, "date")
                 \/ WeekOf(cur.date) # WeekOf(nxt.date)
              /\ NoDinnerIn(OtherItems(data, i), WeekOf(nxt.date)) >= K)
       => (last' = LimitResp("update") /\ data' = data)]_vars

\* C5: an Update that keeps a NoDinner entry in its week is not rejected for
\* quota when that week holds at most K NoDinner entries, the entry itself
\* included (the count of the re-check leaves the entry out): it is applied.
C5_NoSelfBlock ==
  \A x \in chores, b \in SqlUpdateBodies :
    (/\ Limited(x) /\ Limited(Assign(x, Normalize(b)))
     /\ WeekOf(Assign(x, Normalize(b)).date) = WeekOf(x.date)
     /\ NoDinnerIn(chores, WeekOf(x.date)) <= K)
    => SqlUpdateOutcome(chores, x.id, b) =
         [resp |-> Resp("update", 200, Ok),
          rows |-> (chores \ {x}) \cup
                   IF b = EmptyBody THEN {x} ELSE {Assign(x, Normalize(b))}]

C5_Witness ==
  /\ last = Resp("update", 200, Ok)
  /\ \E x \in chores :
       /\ Limited(x) /\ x.date = MaxDay
       /\ NoDinnerIn(chores, WeekOf(x.date)) = K

\* C6: an Update whose only field is `done` runs no quota check and succeeds
\* on every stored entry, whatever its type and however full its week: it
\* answers { ok: true } and sets done on that entry alone.
C6_DoneOnly ==
  \A x \in chores, v \in BOOLEAN :
    /\ ~NeedsCheck(Normalize("done" :> v))
    /\ SqlUpdateOutcome(chores, x.id, "done" :> v) =
         [resp |-> Resp("update", 200, Ok),
          rows |-> (chores \ {x}) \cup {[x EXCEPT !.done = v]}]

C6_Witness ==
  /\ last = Resp("update", 200, Ok)
  /\ \E x \in chores :
       /\ Limited(x) /\ x.done
       /\ NoDinnerIn(chores, WeekOf(x.date)) = K

\* C7: an Update of an id that no stored entry has answers not-found and
\* leaves the store as it was, whatever fields the body carries.
C7_UpdateNotFound ==
  [][\A id \in Ids, b \in SqlUpdateBodies :
       (RowsById(chores, id) = {} /\ SqlUpdate(id, b))
       => (last' = Resp("update", 404, Err("Not found")) /\ chores' = chores)]_vars

\* C8: Delete removes the entry with the given id when there is one, and
\* answers not-found when there is none.
C8_DeleteNotFound ==
  [][\A id \in Ids :
       SqlDelete(id)
       => IF RowsById(chores, id) # {}
          THEN chores' = chores \ RowsById(chores, id) /\ last'.status = 200
          ELSE chores' = chores /\ last'.status = 404]_vars

\* C9: a Create without a date, or of another type than NoDinner without a
\* non-empty title and assignee, answers with a validation error and writes
\* nothing.
C9_InvalidCreateRejected ==
  [][\A b \in JsonCreateBodies :
       (/\ JsonCreate(b)
        /\ \/ ~Has(b, "date")
           \/ ~Limited(b) /\ (~Truthy(b, "title") \/ ~Truthy(b, "assignee")))
       => (last'.status = 400 /\ data' = data)]_vars

\* C10: a successful Create appends exactly one entry, with an identifier no
\* stored entry has and done not set whatever the body carried, returns that
\* entry, and leaves the entries stored before unchanged.
C10_CreateStoresFreshEntry ==
  [][\A b \in JsonCreateBodies :
       (JsonCreate(b) /\ last'.status \in {200, 201})
       => (/\ Len(data') = Len(data) + 1
           /\ SubSeq(data', 1, Len(data)) = data
           /\ \A i \in 1..Len(data) : data[i].id # data'[Len(data')].id
           /\ ~(Has(data'[Len(data')], "done") /\ data'[Len(data')].done)
           /\ last'.body = data'[Len(data')])]_vars

\* the fields a PUT body names (dueDate is the legacy name of date)
InputKeys(b) ==
  (DOMAIN b \ {"dueDate"}) \cup (IF Has(b, "dueDate") THEN {"date"} ELSE {})

\* C11: a successful Update changes only the fields its body names, and only
\* on the entry with the given id: that entry's other fields and all other
\* stored entries are as before, and no entry appears or disappears.
C11_UpdateFrame ==
  \A id \in Ids, b \in SqlUpdateBodies :
    LET o == SqlUpdateOutcome(chores, id, b) IN
    o.resp.status = 200
    => /\ Cardinality(o.rows) = Cardinality(chores)
       /\ \A x \in chores :
            \E y \in o.rows :
              /\ y.id = x.id
              /\ DOMAIN y = DOMAIN x
              /\ \A k \in DOMAIN x :
                   (x.id # id \/ k \notin InputKeys(b)) => y[k] = x[k]

\* an update has turned a task into a NoDinner entry (its title kept) and an
\* update has set done, with another entry in the store
C11_Witness ==
  /\ last = Resp("update", 200, Ok)
  /\ Cardinality(chores) >= 2
  /\ \E x \in chores : x.type = "NoDinner" /\ x.title = "T" /\ x.done

\* C12: no Update alters the id or the createdAt of a stored entry, whatever
\* fields its body carries (id and createdAt included).
C12_IdCreatedAtImmutable ==
  [][\A id \in Ids, b \in JsonIdUpdateBodies :
       JsonUpdate(id, b)
       => /\ Len(data') = Len(data)
          /\ \A i \in 1..Len(data) :
               /\ data'[i].id = data[i].id
               /\ data'[i].createdAt = data[i].createdAt]_vars

\* C13: the stored entries have pairwise distinct ids, also after Creates
\* and Updates whose body carries an id.
C13_DistinctIds ==
  \A i, j \in 1..Len(data) : i # j => data[i].id # data[j].id

\* order of the categories: String.localeCompare on the type
TypeRank(t) == IF t = "NoDinner" THEN 0 ELSE 1

C15_ListOrder ==
  last.op = "list"
  => \A i, j \in 1..Len(last.body) :
       (/\ i < j
        /\ Has(last.body[i], "date") /\ Has(last.body[j], "date")
        /\ last.body[i].date = last.body[j].date)
       => /\ TypeRank(last.body[i].type) <= TypeRank(last.body[j].type)
          /\ last.body[i].type = last.body[j].type
             => last.body[i].id < last.body[j].id

\* a comment (or a request body) without text: text absent or ""
EmptyText(c) == ~Truthy(c, "text")

\* C16: a comment Create with empty or absent text and no attachment is
\* rejected, with no upload asked of the hosting service and no write.
C16_EmptyCommentRejected ==
  [][\A rq \in CommentRequests, up \in UploadResults :
       (/\ rev = "part_000"
        /\ EmptyText(rq.body) /\ ~rq.file
        /\ CommentCreate(rq, up))
       => /\ last'.status >= 400
          /\ comments' = comments
          /\ upcalls' = 0]_vars

\* C17: no stored comment has both an empty text and a null photo reference.
C17_NoEmptyComment ==
  \A i \in 1..Len(comments) :
    ~(EmptyText(comments[i]) /\ comments[i].photoUrl = Null)

\* C18: when the upload made for a supplied attachment fails, the Create
\* answers with the upload-failed error and stores no comment.
C18_FailedUploadStoresNothing ==
  [][\A rq \in CommentRequests, up \in UploadResults :
       (/\ rev = "json2"
        /\ rq.file /\ up # "ok"
        /\ CommentCreate(rq, up)
        /\ upcalls' = 1)
       => /\ last'.status >= 400
          /\ comments' = comments]_vars

\* C19: a comment Create with a text and no attachment succeeds in every
\* revision, asks no upload of the hosting service, and appends exactly one
\* comment, with that text and a null photo reference, which it returns.
C19_TextOnlyAccepted ==
  \A rq \in CommentRequests, up \in UploadResults :
    (~EmptyText(rq.body) /\ ~rq.file)
    => LET o == CommentOutcome(rev, cloud, comments, cnext, rq, up) IN
       /\ o.resp.status = 200
       /\ o.calls = 0
       /\ Len(o.comments) = Len(comments) + 1
       /\ SubSeq(o.comments, 1, Len(comments)) = comments
       /\ o.comments[Len(o.comments)] = o.resp.body
       /\ o.resp.body.text = rq.body.text
       /\ o.resp.body.photoUrl = Null

\* a text-only comment has been stored after a comment with a photo
C19_Witness ==
  /\ rev \in {"part_000", "json4"}
  /\ last.op = "comment" /\ last.status = 200
  /\ upcalls = 0
  /\ last.body.text = "hi" /\ last.body.photoUrl = Null
  /\ \E i \in 1..Len(comments) : comments[i].photoUrl # Null

C21_AnonymousHasNoName ==
  rev # "json1" =>
    \A i \in 1..Len(comments) : comments[i].anonymous => comments[i].name = ""

\* an attachment over the size bound or that is not an image
BadAttachment(f) == f # NoFile /\ (f.size > MaxBytes \/ ~f.image)

\* C22: an attachment that exceeds 3 MiB or is not an image is rejected
\* before any upload: the hosting service is not called for it and no
\* comment is stored, through the comment form and on a direct request.
C22_BadAttachmentRejected ==
  [][\A up \in UploadResults :
       /\ \A c \in Clients, form \in Forms :
            (BadAttachment(form.photoFile) /\ SubmitComment(c, form, up))
            => (upcalls' = 0 /\ comments' = comments)
       /\ \A f \in Files, t \in {"", "hi"} :
            (BadAttachment(f) /\ AttachedCreate(f, t, up))
            => (upcalls' = 0 /\ comments' = comments)]_vars

C24_UploadOnceFailureSurfaced ==
  \A up \in UploadResults, ul \in UnlinkResults :
    /\ \A c \in Clients, form \in Forms :
         LET o == SubmitOutcome(c, rev, cloud, comments, cnext, form, up, ul) IN
         /\ o.calls <= 1
         /\ (o.calls = 1 /\ up # "ok") => o.resp.status # 200
    /\ \A f \in Files, t \in {"", "hi"} :
         LET o == CommentCleanupOutcome(rev, cloud, comments, cnext,
                                        [body |-> "text" :> t, file |-> MulterFile(f)],
                                        up, ul) IN
         /\ o.calls <= 1
         /\ (o.calls = 1 /\ up # "ok") => o.resp.status # 200

\* C25: without the Cloudinary settings, a comment Create with an attachment
\* has one outcome whichever way it reaches the deployed server (either
\* front-end): every path fails and stores nothing, or every path stores
\* the comment with a null photo reference.
C25_UnconfiguredOneOutcome ==
  ~cloud =>
    \A form \in Forms, up \in UploadResults \ {"ok"}, ul \in UnlinkResults :
      (form.photoFile # NoFile /\ ~TooLarge(form))
      => LET outs == { SubmitOutcome(c, rev, cloud, comments, cnext, form, up, ul) :
                         c \in Clients } IN
         \/ \A o \in outs : o.resp.status # 200 /\ o.comments = comments
         \/ \A o \in outs : /\ o.resp.status = 200
                            /\ o.resp.body.photoUrl = Null
                            /\ o.comments = Append(comments, o.resp.body)

\* C26: the week window computed from a date d starts on the Monday on or
\* before d, ends on the Sunday 6 days later, contains d, and is the same
\* window for the dates of the same Monday-to-Sunday span and for no other.
C26_WeekWindow ==
  LET w == range(startOfWeekMon(now)) IN
  /\ GetDay(w.start) = 1
  /\ w.start <= toYMD(now) /\ toYMD(now) - w.start < 7
  /\ w.end = w.start + 6 /\ GetDay(w.end) = 0
  /\ w.start <= toYMD(now) /\ toYMD(now) <= w.end
  /\ startOfWeekMon(now).ms = 0
  /\ \A e \in Dates :
       (WeekOf(toYMD(e)) = WeekOf(toYMD(now))) <=> (range(startOfWeekMon(e)) = w)

\* the page shows the week of a Sunday evening: the window computed from it
C26_Witness ==
  /\ GetDay(toYMD(now)) = 0 /\ now.ms = MsPerDay - 1
  /\ weekStart = startOfWeekMon(now)
  /\ range(weekStart).end = toYMD(now)

\* C27: startOfWeekMon is idempotent: applied to its own result it returns
\* that result, for every date.
C27_StartIdempotent ==
  /\ startOfWeekMon(startOfWeekMon(now)) = startOfWeekMon(now)
  /\ startOfWeekMon(weekStart) = weekStart

\* the start of the week of a day that is neither Monday nor Sunday, later
\* in the day, has been computed and put on display
C27_Witness ==
  /\ GetDay(toYMD(now)) = 3 /\ now.ms > 0
  /\ weekStart = startOfWeekMon(now)
  /\ weekStart # now

\* C28: comments are append-only: every comment of the store is still in
\* the store, with the same fields, after every step of every request,
\* overlapping comment Creates included.
C28_CommentsAppendOnly ==
  [][\A i \in 1..Len(comments) :
       \E j \in 1..Len(comments') : comments'[j] = comments[i]]_vars

\* C29: an operation that cannot read data.json answers with an error and
\* leaves the store as it was, the file included; it does not answer as if
\* the store were empty.
C29_StoreFailureReported ==
  [][/\ \A q \in Queries :
          (rev = "json" /\ ~fileOk /\ JsonList(q))
          => (last'.status >= 500 /\ data' = data /\ fileOk' = fileOk)
     /\ \A b \in ListCreateBodies :
          (rev = "json" /\ ~fileOk /\ JsonCreate(b))
          => (last'.status >= 500 /\ data' = data /\ fileOk' = fileOk)]_vars

\* C30: a successful Create of a NoDinner entry stores the default title
\* and no assignee (absent or empty), whatever title and assignee the
\* request carried.
C30_LimitedCreateDefaults ==
  [][\A b \in JsonCreateBodies :
       (Limited(b) /\ JsonCreate(b) /\ last'.status = 200)
       => LET x == data'[Len(data')] IN
          /\ Has(x, "title") /\ x.title = "Make your own"
          /\ Has(x, "assignee") => x.assignee = ""]_vars

\* C31: a task Create, Update or Delete, or another comment Create, that
\* completed while a comment Create waited for its upload is not lost: the
\* step that persists the comment keeps the tasks as they are at that
\* moment and adds its comment to the comments stored at that moment.
C31_NoLostMutation ==
  [][\A r \in Reqs, up \in UploadResults :
       (CommentResolve(r, up) /\ last'.status = 200)
       => /\ data' = data
          /\ Len(comments') = Len(comments) + 1
          /\ SubSeq(comments', 1, Len(comments)) = comments]_vars

\* C32: an Update that moves or promotes an entry into a week while other
\* requests for that week are in flight does not bring the week above K:
\* when every week is within the cap before the UPDATE statement is
\* applied, the week of the updated entry is within the cap after it.
C32_UpdateKeepsCap ==
  [][\A r \in Reqs :
       (/\ req[r].pc = "write"
        /\ SqlUpdateWrite(r)
        /\ \A w \in Weeks : NoDinnerIn(chores, w) <= K)
       => \A x \in chores' :
            (x.id = req[r].id /\ Limited(x))
            => NoDinnerIn(chores', WeekOf(x.date)) <= K]_vars

\* C33: the quota check of a make-your-own Create is made on the week of
\* the candidate date, whichever week is on display: the Create is refused
\* exactly when the candidate's own week already holds K NoDinner entries.
C33_QuotaOfCandidateWeek ==
  [][\A c \in OwnDayClients, d \in Days :
       MakeOwnDay(c, d)
       => ((last'.status # 201) <=> (NoDinnerIn(chores, WeekOf(d)) >= K))]_vars

\* C34: whenever the upload made for a supplied attachment succeeds, the
\* Create succeeds and stores the comment with the reference the upload
\* returned, whether the removal of the temporary file succeeds or throws.
C34_UploadedPhotoStored ==
  \A rq \in CommentRequests, ul \in UnlinkResults :
    (cloud /\ rq.file)
    => LET o == CommentCleanupOutcome(rev, cloud, comments, cnext, rq, "ok", ul) IN
       /\ o.resp.status = 200
       /\ o.resp.body.photoUrl = Uploaded(o.resp.body.id)
       /\ o.comments = Append(comments, o.resp.body)

\* number of quota-limited entries of week w in the chores array
NoDinnerInSeq(items, w) ==
  Len(SelectSeq(items, LAMBDA x : Limited(x) /\ Has(x, "date") /\ WeekOf(x.date) = w))

\* C35: a Delete changes nothing but the entries of the given id: the
\* entries with another id are the same, in the same order, nothing is
\* added, and no week has more NoDinner entries after it than before.
C35_DeleteFrame ==
  \A id \in Ids :
    /\ LET o == SqlDeleteOutcome(chores, id) IN
       /\ {x \in o.rows : x.id # id} = {x \in chores : x.id # id}
       /\ o.rows \subseteq chores
       /\ \A w \in Weeks : NoDinnerIn(o.rows, w) <= NoDinnerIn(chores, w)
    /\ LET o == JsonDeleteOutcome(data, id) IN
       /\ SelectSeq(o.items, LAMBDA x : x.id # id) = SelectSeq(data, LAMBDA x : x.id # id)
       /\ Len(o.items) <= Len(data)
       /\ \A w \in Weeks : NoDinnerInSeq(o.items, w) <= NoDinnerInSeq(data, w)

\* a Delete has removed an entry and left others, a NoDinner entry among
\* them
C35_Witness ==
  /\ last.op = "delete"
  /\ \/ /\ rev = "mysql" /\ Cardinality(chores) = 2 /\ nextId = 3
        /\ \E x \in chores : Limited(x)
     \/ /\ rev = "json" /\ Len(data) = 2 /\ jnext = 3
        /\ \E i \in 1..Len(data) : Limited(data[i])

\* C38: Delete is idempotent on the store: deleting an id a second time
\* leaves the store as the first Delete left it, and deleting an id that no
\* entry has leaves the store as it is.
C38_DeleteIdempotent ==
  \A id \in Ids :
    /\ LET o == SqlDeleteOutcome(chores, id) IN
       /\ SqlDeleteOutcome(o.rows, id).rows = o.rows
       /\ RowsById(chores, id) = {} => o.rows = chores
    /\ LET o == JsonDeleteOutcome(data, id) IN
       /\ JsonDeleteOutcome(o.items, id).items = o.items
       /\ FindIndex(data, id) = 0 => o.items = data

\* a Delete has been served for an id that the store, which holds entries,
\* does not (or no longer) hold
C38_Witness ==
  /\ last.op = "delete"
  /\ \/ /\ rev = "mysql" /\ chores # {}
        /\ \E id \in Ids : id <= nextId /\ RowsById(chores, id) = {}
     \/ /\ rev = "json" /\ data # <<>>
        /\ \E id \in Ids : id <= jnext /\ FindIndex(data, id) = 0

\* C36: the anonymous flag stored with a comment is the flag the comment
\* form was sent with, from either front-end (isAnonymous as a JSON boolean,
\* anonymous as the form string 'true' or 'false'), in the revisions that
\* store the field `anonymous`.
C36_AnonymousAsAsked ==
  rev # "json1" =>
    \A c \in Clients, form \in Forms, ul \in UnlinkResults :
      (form.photoFile = NoFile /\ ~NothingToPost(form))
      => LET o == SubmitOutcome(c, rev, cloud, comments, cnext, form, "fail", ul) IN
         /\ o.resp.status = 200
         /\ o.resp.body.anonymous = form.isAnonymous

\* C37: after any sequence of the Prev, Next and This Week buttons the week
\* on display starts on a Monday at midnight, its seven days are that
\* Monday and the six days after it, and the range runs from that Monday to
\* the Sunday that follows.
C37_DisplayedWeek ==
  /\ GetDay(toYMD(weekStart)) = 1
  /\ weekStart.ms = 0
  /\ \A i \in 0..6 : toYMD(weekDays(weekStart)[i]) = toYMD(weekStart) + i
  /\ range(weekStart) = [start |-> toYMD(weekStart), end |-> toYMD(weekStart) + 6]
  /\ GetDay(range(weekStart).end) = 0

\* the page has been moved to a week after the one of its clock, which
\* shows a Sunday
C37_Witness ==
  /\ GetDay(toYMD(now)) = 0
  /\ toYMD(weekStart) = toYMD(now) + 1

\* C39: when every upload resolves, every comment Create that waits for its
\* upload completes, and the step that completes it sends exactly one
\* outcome: the stored comment (200, the comment is the last of the store)
\* or an error (nothing stored by that step).
C39_OneOutcome ==
  /\ \A r \in Reqs : (req[r] # Idle) ~> (req[r] = Idle)
  /\ [][\A r \in Reqs :
          (req[r] # Idle /\ req'[r] = Idle)
          => /\ last'.op = "comment"
             /\ \/ /\ last'.status = 200
                   /\ comments' # <<>>
                   /\ comments'[Len(comments')] = last'.body
                   /\ cnext' = cnext + 1
                \/ /\ last'.status = 500
                   /\ comments' = comments
                   /\ cnext' = cnext]_vars

\* a request whose upload failed has been answered with the error while
\* another request is still waiting for its upload
C39_Witness ==
  /\ last.op = "comment" /\ last.status = 500
  /\ \E r, s \in Reqs : req[r] = Idle /\ req[s] # Idle
  /\ cnext > 0
====
